---------------------------- MODULE Spec2Model ----------------------------
(***************************************************************************)
(* A model of the `Freeze` derive macro of starlark_derive                 *)
(* (src/starlark_derive/src/freeze.rs) and of the hand-written Freeze      *)
(* implementation of src/starlark/src/tests/freeze_access_value.rs.        *)
(*                                                                         *)
(* Token streams are sequences of strings, one string per token.  An       *)
(* Option<T> is a sequence of length 0 (None) or 1 (Some).  A panic is a   *)
(* record naming the function that panicked and the panic message.         *)
(***************************************************************************)
EXTENDS Naturals, Sequences, FiniteSets

VARIABLES
    input,          \* the DeriveInput handed to derive_freeze
    pc,             \* position of derive_freeze / of the generated procedure
    impl_params,    \* first stream returned by format_impl_generics
    input_params,   \* second stream returned by format_impl_generics
    output_params,  \* third stream returned by format_impl_generics
    opts,           \* FreezeDeriveOptions returned by extract_options
    body,           \* stream returned by freeze_impl
    examined,       \* number of fields is_identity has been called on
    gen,            \* the emitted implementation
    panic,          \* the panic that aborted generation, if any
    ip,             \* generated procedure: index of the last token executed
    calls,          \* generated procedure: the fallible calls made so far
    result,         \* generated procedure: its return value
    heap,           \* test: the values allocated on the Heap
    forward,        \* test: the freezer's record of values already frozen
    t,              \* test: the struct `t` (its `field`)
    tpc,            \* test: position in fn test()
    tresult         \* test: what t.freeze(&freezer) returned

derive_vars == <<input, pc, impl_params, input_params, output_params, opts,
                 body, examined, gen, panic>>
run_vars == <<ip, calls, result>>
test_vars == <<heap, forward, t, tpc, tresult>>
vars == <<input, pc, impl_params, input_params, output_params, opts, body,
          examined, gen, panic, ip, calls, result, heap, forward, t, tpc,
          tresult>>

---------------------------------------------------------------------------
(* Bounds of the enumerated declarations. *)

MaxParams == 2      \* generic parameters of the declaration
MaxAttrs == 2       \* attributes on the type
MaxFields == 2      \* fields of the struct

---------------------------------------------------------------------------
(* Generic helpers on token streams. *)

RECURSIVE Concat(_)
Concat(ss) == IF ss = <<>> THEN <<>> ELSE Head(ss) \o Concat(Tail(ss))

SeqsUpTo(S, n) == UNION {[1..k -> S] : k \in 0..n}

NoPanic == [in |-> "", msg |-> ""]
Panic(f, m) == [in |-> f, msg |-> m]

---------------------------------------------------------------------------
(* The declarations enumerated as inputs. *)

StructName == "S"
TypeIdents == <<"T1", "T2", "T3", "T4">>
LifetimeIdents == <<"'a1", "'a2", "'a3", "'a4">>
ConstIdents == <<"N1", "N2", "N3", "N4">>
FieldIdents == <<"a", "b", "c", "d">>
ValidatorIdents == <<"check1", "check2">>
BoundLists == {<<>>, <<"Clone">>}
UserBounds == <<"V", ":", "UserBound">>

GenericParamAt(i) ==
    {[kind |-> "Type", ident |-> TypeIdents[i], bounds |-> b] : b \in BoundLists}
    \cup {[kind |-> "Lifetime", ident |-> LifetimeIdents[i], bounds |-> <<>>],
          [kind |-> "Const", ident |-> ConstIdents[i], bounds |-> <<>>]}

AllGenerics ==
    UNION {{g \in [1..n -> UNION {GenericParamAt(i) : i \in 1..n}] :
               \A i \in 1..n : g[i] \in GenericParamAt(i)} : n \in 0..MaxParams}

\* One `keyword = value` item of a type-level attribute, its value well formed
\* (an identifier, a string holding a where predicate); "unknown" is an item
\* whose keyword is neither validator nor bounds.  The j-th item of an
\* attribute names its own validator function.
ItemAt(j) ==
    {[kw |-> "validator", val |-> <<ValidatorIdents[j]>>],
     [kw |-> "bounds", val |-> UserBounds],
     [kw |-> "unknown", val |-> <<>>]}

ItemLists ==
    {<<>>} \cup {<<x>> : x \in ItemAt(1)}
           \cup {<<x, y>> : x \in ItemAt(1), y \in ItemAt(2)}

TypeAttrs ==
    {[path |-> "freeze", args |-> a] : a \in ItemLists}
    \cup {[path |-> "derive", args |-> <<>>]}

AllAttrs == SeqsUpTo(TypeAttrs, MaxAttrs)

\* Field-level attributes: #[freeze(identity)], #[freeze(bogus)], #[freeze()]
\* and an attribute of another path.
FieldAttrs ==
    {[path |-> "freeze", args |-> <<"identity">>],
     [path |-> "freeze", args |-> <<"bogus">>],
     [path |-> "freeze", args |-> <<>>],
     [path |-> "doc", args |-> <<"text">>]}

FieldAttrLists ==
    {<<>>} \cup {<<x>> : x \in FieldAttrs} \cup {<<x, y>> : x, y \in FieldAttrs}

FieldLists == SeqsUpTo(FieldAttrLists, MaxFields)

AllData ==
    {[shape |-> s, fields |-> f] : s \in {"Named", "Unnamed"}, f \in FieldLists}
    \cup {[shape |-> s, fields |-> <<>>] : s \in {"Unit", "Enum", "Union"}}

GenericsSmall == {g \in AllGenerics : Len(g) <= 1 /\ \A i \in 1..Len(g) : g[i].bounds = <<>>}
AttrsSmall ==
    {<<>>} \cup {<<[path |-> "freeze", args |-> a]>> :
                    a \in {<<[kw |-> "validator", val |-> <<ValidatorIdents[1]>>]>>,
                           <<[kw |-> "bounds", val |-> UserBounds]>>,
                           <<[kw |-> "validator", val |-> <<ValidatorIdents[1]>>],
                             [kw |-> "bounds", val |-> UserBounds]>>}}
DataSmall ==
    {d \in AllData : \A i \in 1..Len(d.fields) : d.fields[i] = <<>>}
AttrsPlain == {a \in AttrsSmall : \A i \in 1..Len(a) : Len(a[i].args) = 1
                                                       /\ a[i].args[1].kw = "validator"}

Decl(g, a, d) == [generics |-> g, attrs |-> a, data |-> d]

\* A declaration in which at most one of the three parts (generics, type-level
\* attributes, fields) ranges over its whole bounded set.
IsInput(x) ==
    \/ \E g \in AllGenerics, a \in AttrsSmall, d \in DataSmall : x = Decl(g, a, d)
    \/ \E g \in GenericsSmall, a \in AllAttrs, d \in DataSmall : x = Decl(g, a, d)
    \/ \E a \in AttrsPlain, d \in AllData : x = Decl(<<>>, a, d)

---------------------------------------------------------------------------
(* Input::angle_brankets and Input::format_impl_generics. *)

RECURSIVE CommaEach(_)
CommaEach(entries) ==
    IF entries = <<>> THEN <<>>
    ELSE Head(entries) \o <<",">> \o CommaEach(Tail(entries))

angle_brankets(tokens) ==
    IF tokens = <<>> THEN <<>> ELSE <<"<">> \o CommaEach(tokens) \o <<">">>

RECURSIVE PlusEach(_)
PlusEach(bounds) ==
    IF bounds = <<>> THEN <<>> ELSE <<Head(bounds), "+">> \o PlusEach(Tail(bounds))

ImplEntry(param) ==
    IF param.kind = "Type"
    THEN <<param.ident, ":">> \o PlusEach(param.bounds) \o <<"starlark::values::Freeze">>
    ELSE <<param.ident>>

InputEntry(param) == <<param.ident>>

OutputEntry(param) ==
    IF param.kind = "Type" THEN <<param.ident, "::", "Frozen">> ELSE <<"'static">>

\* A variant that pushes no output-form entry for a lifetime parameter.
format_impl_generics_no_static(generics) ==
    IF \E i \in 1..Len(generics) : generics[i].kind = "Const"
    THEN [panic |-> Panic("format_impl_generics", "const generics not supported"),
          impl |-> <<>>, inp |-> <<>>, out |-> <<>>]
    ELSE LET IsType(p) == p.kind = "Type"
             ts == SelectSeq(generics, IsType)
         IN [panic |-> NoPanic,
             impl |-> angle_brankets(<<<<"'freeze">>>> \o
                                     [i \in 1..Len(generics) |-> ImplEntry(generics[i])]),
             inp |-> angle_brankets([i \in 1..Len(generics) |-> InputEntry(generics[i])]),
             out |-> angle_brankets([i \in 1..Len(ts) |-> OutputEntry(ts[i])])]

format_impl_generics(generics) ==
    IF \E i \in 1..Len(generics) : generics[i].kind = "Const"
    THEN [panic |-> Panic("format_impl_generics", "const generics not supported"),
          impl |-> <<>>, inp |-> <<>>, out |-> <<>>]
    ELSE [panic |-> NoPanic,
          impl |-> angle_brankets(<<<<"'freeze">>>> \o
                                  [i \in 1..Len(generics) |-> ImplEntry(generics[i])]),
          inp |-> angle_brankets([i \in 1..Len(generics) |-> InputEntry(generics[i])]),
          out |-> angle_brankets([i \in 1..Len(generics) |-> OutputEntry(generics[i])])]

---------------------------------------------------------------------------
(* extract_options. *)

DefaultOptions == [validator |-> <<>>, bounds |-> <<>>]

LookaheadError == "expected validator or bounds"
LookaheadErrorAtEnd == "unexpected end of input, expected validator or bounds"

\* One iteration of the loop of the closure: one keyword = value item.
ParseItem(o, item) ==
    IF item.kw = "validator"
    THEN IF o.bounds # <<>>
         THEN [panic |-> Panic("extract_options", "set validator twice"), opts |-> o]
         ELSE [panic |-> NoPanic, opts |-> [o EXCEPT !.validator = <<item.val>>]]
    ELSE IF item.kw = "bounds"
    THEN IF o.bounds # <<>>
         THEN [panic |-> Panic("extract_options", "set bounds twice"), opts |-> o]
         ELSE [panic |-> NoPanic, opts |-> [o EXCEPT !.bounds = <<item.val>>]]
    ELSE [panic |-> Panic("extract_options", LookaheadError), opts |-> o]

\* The closure handed to parse_args_with: the items of one attribute, in order.
RECURSIVE ParseArgs(_, _)
ParseArgs(o, args) ==
    IF args = <<>>
    THEN [panic |-> NoPanic, opts |-> o]
    ELSE LET r == ParseItem(o, Head(args))
         IN IF r.panic # NoPanic THEN r ELSE ParseArgs(r.opts, Tail(args))

RECURSIVE ExtractFrom(_, _)
ExtractFrom(o, attrs) ==
    IF attrs = <<>>
    THEN [panic |-> NoPanic, opts |-> o]
    ELSE LET attr == Head(attrs)
         IN IF attr.path # "freeze"
            THEN ExtractFrom(o, Tail(attrs))
            ELSE IF attr.args = <<>>
            THEN [panic |-> Panic("extract_options", LookaheadErrorAtEnd), opts |-> o]
            ELSE LET r == ParseArgs(o, attr.args)
                 IN IF r.panic # NoPanic THEN r ELSE ExtractFrom(r.opts, Tail(attrs))

extract_options(attrs) == ExtractFrom(DefaultOptions, attrs)

---------------------------------------------------------------------------
(* is_identity, freeze_struct, freeze_enum and freeze_impl. *)

\* The closure of is_identity on one attribute's arguments, followed by
\* parse_args_with's check that nothing is left unparsed: "true", "false" or
\* "err" (which unwrap() turns into a panic).
\* A variant whose closure returns Ok(true) whenever the parse succeeds.
ParseIdentity_always(args) ==
    IF args = <<>> \/ args = <<"identity">> THEN "true" ELSE "err"

ParseIdentity(args) ==
    IF args = <<>> THEN "false"
    ELSE IF args = <<"identity">> THEN "true"
    ELSE "err"

\* attrs.iter().any(..): [flag, panicked].
RECURSIVE is_identity(_)
is_identity(attrs) ==
    IF attrs = <<>>
    THEN [flag |-> FALSE, panicked |-> FALSE]
    ELSE LET a == Head(attrs)
         IN IF a.path # "freeze"
            THEN is_identity(Tail(attrs))
            ELSE LET r == ParseIdentity(a.args)
                 IN IF r = "err" THEN [flag |-> FALSE, panicked |-> TRUE]
                    ELSE IF r = "true" THEN [flag |-> TRUE, panicked |-> FALSE]
                    ELSE is_identity(Tail(attrs))

UnwrapError == "called Result::unwrap() on an Err value: unexpected token"

\* quote!(#i) of a usize is a literal with its type suffix.
IndexLit == <<"0usize", "1usize", "2usize", "3usize">>

NamedFragment(i, attrs) ==
    LET name == FieldIdents[i]
    IN IF is_identity(attrs).flag
       THEN <<name, ":", "self", ".", name, ",">>
       ELSE <<name, ":", "starlark::values::Freeze::freeze", "(", "self", ".", name,
              ",", "freezer", ")", "?", ",">>

UnnamedFragment(i, attrs) ==
    IF is_identity(attrs).flag
    THEN <<"self", ".", IndexLit[i]>>
    ELSE <<"starlark::values::FreezeField::freeze_field", "(", "self", ".", IndexLit[i],
           ",", "freezer", ")", "?">>

\* The fields is_identity is called on before the map stops: all of them, or
\* those up to and including the first one on which it panics.
FirstPanic(fields) ==
    LET bad == {i \in 1..Len(fields) : is_identity(fields[i]).panicked}
    IN IF bad = {} THEN 0 ELSE CHOOSE i \in bad : \A j \in bad : i <= j

freeze_struct(name, data) ==
    IF data.shape = "Unit"
    THEN [panic |-> NoPanic, examined |-> 0, body |-> <<>>]
    ELSE IF FirstPanic(data.fields) # 0
    THEN [panic |-> Panic("is_identity", UnwrapError),
          examined |-> FirstPanic(data.fields), body |-> <<>>]
    ELSE IF data.shape = "Named"
    THEN [panic |-> NoPanic, examined |-> Len(data.fields),
          body |-> <<"std::result::Result::Ok", "(", name, "{">>
                   \o Concat([i \in 1..Len(data.fields) |-> NamedFragment(i, data.fields[i])])
                   \o <<"}", ")">>]
    ELSE [panic |-> NoPanic, examined |-> Len(data.fields),
          body |-> <<"std::result::Result::Ok", "(", name, "(">>
                   \o Concat([i \in 1..Len(data.fields) |-> UnnamedFragment(i, data.fields[i])])
                   \o <<")", ")">>]

freeze_enum(name, data) ==
    [panic |-> Panic("freeze_enum", "not implemented: Can't derive freeze for enums"),
     examined |-> 0, body |-> <<>>]

\* A variant that hands every shape to freeze_struct.
freeze_impl_no_reject(name, data) == freeze_struct(name, data)

freeze_impl(name, data) ==
    IF data.shape \in {"Named", "Unnamed", "Unit"} THEN freeze_struct(name, data)
    ELSE IF data.shape = "Enum" THEN freeze_enum(name, data)
    ELSE [panic |-> Panic("freeze_impl", "not implemented: Can't derive freeze for unions"),
          examined |-> 0, body |-> <<>>]

---------------------------------------------------------------------------
(* derive_freeze: the assembly of the implementation. *)

NoGen == [header |-> <<>>, frozen |-> <<>>, body |-> <<>>]

\* A variant that calls the validator without `?`.
validate_body_unchecked(o) ==
    IF o.validator # <<>> THEN o.validator[1] \o <<"(", "&", "self", ")", ";">>
    ELSE <<>>

validate_body(o) ==
    IF o.validator # <<>> THEN o.validator[1] \o <<"(", "&", "self", ")", "?", ";">>
    ELSE <<>>

bounds_body(o) ==
    IF o.bounds # <<>> THEN <<"where">> \o o.bounds[1] ELSE <<>>

\* A variant that leaves #bounds_body out of the header.
gen_impl_no_where(name, ip_, np_, op_, o, b) ==
    [header |-> <<"impl">> \o ip_ \o <<"starlark::values::Freeze", "for", name>> \o np_,
     frozen |-> <<"type", "Frozen", "=", name>> \o op_ \o <<";">>,
     body |-> validate_body(o) \o b]

\* The quote! of lines 98-106: the header up to the opening brace, the
\* associated type, and the body of fn freeze.
gen_impl(name, ip_, np_, op_, o, b) ==
    [header |-> <<"impl">> \o ip_ \o <<"starlark::values::Freeze", "for", name>>
                \o np_ \o bounds_body(o),
     frozen |-> <<"type", "Frozen", "=", name>> \o op_ \o <<";">>,
     body |-> validate_body(o) \o b]

---------------------------------------------------------------------------
(* tests/freeze_access_value.rs: struct Test<V> { field: V } with a         *)
(* hand-written Freeze that reads the field it has just frozen.             *)
(*                                                                         *)
(* A Value is a record [addr, kind, elems] on the Heap.  The freezer maps   *)
(* each value it has frozen to its FrozenValue [faddr, kind, elems].        *)

MaxHeap == 2        \* values allocated on the heap

ValueContents ==
    {[kind |-> "list", elems |-> <<>>], [kind |-> "list", elems |-> <<1, 2>>],
     [kind |-> "int", elems |-> <<1>>]}
NoValue == [faddr |-> 0, kind |-> "", elems |-> <<>>]
FreezeErrors == {"freeze error"}

Ok(fv) == [ret |-> "Ok", msg |-> "", field |-> fv]
Err(m) == [ret |-> "Err", msg |-> m, field |-> NoValue]

NoTest == [field |-> [addr |-> 0, kind |-> "", elems |-> <<>>]]
AllValues == {[addr |-> a, kind |-> c.kind, elems |-> c.elems] :
                 a \in 1..(MaxHeap + 1), c \in ValueContents}

\* fn test() has not started.
TestIdle ==
    /\ heap = {}
    /\ forward = [v \in AllValues |-> NoValue]
    /\ t = NoTest
    /\ tpc = "idle"
    /\ tresult = Err("")

---------------------------------------------------------------------------
(* The steps of derive_freeze. *)

RunInit == ip = 0 /\ calls = <<>> /\ result = "none"

Init ==
    /\ IsInput(input)
    /\ pc = "start"
    /\ impl_params = <<>> /\ input_params = <<>> /\ output_params = <<>>
    /\ opts = DefaultOptions
    /\ body = <<>>
    /\ examined = 0
    /\ gen = NoGen
    /\ panic = NoPanic
    /\ RunInit
    /\ TestIdle

\* line 80
FormatImplGenerics ==
    /\ pc = "start"
    /\ LET r == format_impl_generics(input.generics)
       IN /\ impl_params' = r.impl
          /\ input_params' = r.inp
          /\ output_params' = r.out
          /\ panic' = r.panic
          /\ pc' = IF r.panic # NoPanic THEN "aborted" ELSE "generics"
    /\ UNCHANGED <<input, opts, body, examined, gen>>
    /\ UNCHANGED run_vars /\ UNCHANGED test_vars

\* line 82
ExtractOptions ==
    /\ pc = "generics"
    /\ LET r == extract_options(input.attrs)
       IN /\ opts' = IF r.panic # NoPanic THEN opts ELSE r.opts
          /\ panic' = r.panic
          /\ pc' = IF r.panic # NoPanic THEN "aborted" ELSE "options"
    /\ UNCHANGED <<input, impl_params, input_params, output_params, body, examined, gen>>
    /\ UNCHANGED run_vars /\ UNCHANGED test_vars

\* line 96
FreezeImpl ==
    /\ pc = "options"
    /\ LET r == freeze_impl(StructName, input.data)
       IN /\ body' = r.body
          /\ examined' = r.examined
          /\ panic' = r.panic
          /\ pc' = IF r.panic # NoPanic THEN "aborted" ELSE "body"
    /\ UNCHANGED <<input, impl_params, input_params, output_params, opts, gen>>
    /\ UNCHANGED run_vars /\ UNCHANGED test_vars

\* lines 98-108
Emit ==
    /\ pc = "body"
    /\ gen' = gen_impl(StructName, impl_params, input_params, output_params, opts, body)
    /\ pc' = "emitted"
    /\ UNCHANGED <<input, impl_params, input_params, output_params, opts, body,
                   examined, panic>>
    /\ UNCHANGED run_vars /\ UNCHANGED test_vars

---------------------------------------------------------------------------
(* The generated procedure `fn freeze(self, freezer)`: gen.body, executed   *)
(* left to right.  Each `?` is a fallible call into code outside the macro; *)
(* its outcome is Ok or one of the callee's errors.                         *)

Errors == {"e1", "e2"}

\* The expression after the validator statement, if there is one.
RECURSIVE AfterSemi(_)
AfterSemi(toks) ==
    IF toks = <<>> THEN <<>>
    ELSE IF Head(toks) = ";" THEN Tail(toks) ELSE AfterSemi(Tail(toks))

BodyExpr(toks) ==
    IF \E i \in 1..Len(toks) : toks[i] = ";" THEN AfterSemi(toks) ELSE toks

\* `Ok(S { name: expr, .. })`, the one form of body the macro emits that is an
\* expression of type Result<S<..>>.
IsStructLiteral(toks) ==
    LET e == BodyExpr(toks)
    IN Len(e) >= 6 /\ e[1] = "std::result::Result::Ok" /\ e[4] = "{"

\* The first `?` after token `from`, or 0.
NextTry(toks, from) ==
    LET qs == {q \in (from + 1)..Len(toks) : toks[q] = "?"}
    IN IF qs = {} THEN 0 ELSE CHOOSE q \in qs : \A r \in qs : q <= r

\* The call the `?` at q is applied to: `v(&self)?` or `f(self.x, freezer)?`.
CallAt(toks, q) ==
    IF toks[q - 2] = "self"
    THEN [kind |-> "validator", on |-> toks[q - 5]]
    ELSE [kind |-> "field", on |-> toks[q - 4]]

Call ==
    /\ pc = "emitted"
    /\ IsStructLiteral(gen.body)
    /\ pc' = "running"
    /\ ip' = 0
    /\ UNCHANGED <<input, impl_params, input_params, output_params, opts, body,
                   examined, gen, panic, calls, result>>
    /\ UNCHANGED test_vars

\* The next fallible call and its `?`.
Try ==
    /\ pc = "running"
    /\ NextTry(gen.body, ip) # 0
    /\ \E ret \in {"Ok"} \cup Errors :
          LET q == NextTry(gen.body, ip)
              c == CallAt(gen.body, q)
          IN /\ calls' = Append(calls, [kind |-> c.kind, on |-> c.on, ret |-> ret])
             /\ ip' = q
             /\ result' = IF ret = "Ok" THEN result ELSE ret
             /\ pc' = IF ret = "Ok" THEN "running" ELSE "returned"
    /\ UNCHANGED <<input, impl_params, input_params, output_params, opts, body,
                   examined, gen, panic>>
    /\ UNCHANGED test_vars

\* No `?` is left: the constructor expression is returned.
Return ==
    /\ pc = "running"
    /\ NextTry(gen.body, ip) = 0
    /\ ip' = Len(gen.body)
    /\ result' = "Ok"
    /\ pc' = "returned"
    /\ UNCHANGED <<input, impl_params, input_params, output_params, opts, body,
                   examined, gen, panic, calls>>
    /\ UNCHANGED test_vars

Next ==
    \/ FormatImplGenerics
    \/ ExtractOptions
    \/ FreezeImpl
    \/ Emit
    \/ Call
    \/ Try
    \/ Return

Spec == Init /\ [][Next]_vars

---------------------------------------------------------------------------
(* Reading the declaration and the generated streams. *)

Generics == input.generics
Fields == input.data.fields
Shape == input.data.shape
HasConst == \E i \in 1..Len(Generics) : Generics[i].kind = "Const"

\* The items of the type's freeze attributes, as <<attribute, item>> positions.
FreezeItems ==
    UNION {{<<i, j>> : j \in 1..Len(input.attrs[i].args)} :
              i \in {k \in 1..Len(input.attrs) : input.attrs[k].path = "freeze"}}
KwCount(kw) ==
    Cardinality({p \in FreezeItems : input.attrs[p[1]].args[p[2]].kw = kw})
\* Every freeze attribute of the type is a non-empty list of validator/bounds items.
KeywordsRecognized ==
    /\ KwCount("unknown") = 0
    /\ \A i \in 1..Len(input.attrs) :
          input.attrs[i].path = "freeze" => input.attrs[i].args # <<>>
\* extract_options has returned or panicked.
OptionsRan == pc \notin {"start", "generics"} /\ panic.in # "format_impl_generics"
\* freeze_impl has returned a body.
BodyBuilt == pc \in {"body", "emitted", "running", "returned"}

RECURSIVE SplitComma(_, _)
SplitComma(toks, cur) ==
    IF toks = <<>> THEN (IF cur = <<>> THEN <<>> ELSE <<cur>>)
    ELSE IF Head(toks) = "," THEN <<cur>> \o SplitComma(Tail(toks), <<>>)
    ELSE SplitComma(Tail(toks), Append(cur, Head(toks)))

\* The entries of a stream `< e1, e2, .. >`.
Entries(stream) ==
    IF stream = <<>> THEN <<>> ELSE SplitComma(SubSeq(stream, 2, Len(stream) - 1), <<>>)

\* The comma-separated expressions of a constructor's argument list, commas
\* inside nested parentheses not counted.
RECURSIVE SplitTop(_, _, _)
SplitTop(toks, depth, cur) ==
    IF toks = <<>> THEN (IF cur = <<>> THEN <<>> ELSE <<cur>>)
    ELSE LET x == Head(toks)
         IN IF x = "," /\ depth = 0 THEN <<cur>> \o SplitTop(Tail(toks), 0, <<>>)
            ELSE IF x = "(" THEN SplitTop(Tail(toks), depth + 1, Append(cur, x))
            ELSE IF x = ")" THEN SplitTop(Tail(toks), depth - 1, Append(cur, x))
            ELSE SplitTop(Tail(toks), depth, Append(cur, x))

Mentions(toks, x) == \E i \in 1..Len(toks) : toks[i] = x
Count(toks, S) == Cardinality({i \in 1..Len(toks) : toks[i] \in S})

---------------------------------------------------------------------------
(* C1, C2: the type-level options. *)

\* C1 (as claimed): a declaration whose freeze annotations set validator twice,
\* or bounds twice, is aborted by extract_options with "set validator twice" /
\* "set bounds twice", before any field is examined and with nothing emitted.
C1_DuplicateOptionAborts ==
    (/\ OptionsRan
     /\ KeywordsRecognized
     /\ (KwCount("validator") >= 2 \/ KwCount("bounds") >= 2))
    => /\ pc = "aborted"
       /\ panic.in = "extract_options"
       /\ panic.msg \in {m \in {"set validator twice", "set bounds twice"} :
                            \/ (m = "set validator twice" /\ KwCount("validator") >= 2)
                            \/ (m = "set bounds twice" /\ KwCount("bounds") >= 2)}
       /\ examined = 0
       /\ gen = NoGen

\* C2 (as claimed): when validator and bounds are each set exactly once, in
\* either order, extract_options succeeds with both recorded; a list in which
\* no keyword repeats never fails with "set ... twice".
C2_EachOnceSucceeds ==
    (/\ OptionsRan
     /\ KeywordsRecognized
     /\ KwCount("validator") <= 1 /\ KwCount("bounds") <= 1)
    => /\ panic.msg \notin {"set validator twice", "set bounds twice"}
       /\ (KwCount("validator") = 1 /\ KwCount("bounds") = 1)
             => /\ panic.in # "extract_options"
                /\ opts.validator # <<>>
                /\ opts.bounds = <<UserBounds>>

---------------------------------------------------------------------------
(* C3: the header of the implementation. *)

ForIndex(header) == CHOOSE k \in 1..Len(header) : header[k] = "for"
\* `impl <..> Trait for ..`: the stream between `impl` and the trait.
HeaderImplParams(header) == SubSeq(header, 2, ForIndex(header) - 2)
\* The header from `where` on.
WhereClause(header) ==
    IF Mentions(header, "where")
    THEN SubSeq(header, CHOOSE k \in 1..Len(header) : header[k] = "where", Len(header))
    ELSE <<>>

NotPlus(x) == x # "+"
\* `T: B1 + .. + Bn + Freeze`: the declared bounds, then the added one.
CarriesDefaultBound(entry, param) ==
    /\ Len(entry) >= 3
    /\ entry[1] = param.ident
    /\ entry[2] = ":"
    /\ entry[Len(entry)] = "starlark::values::Freeze"
    /\ SelectSeq(SubSeq(entry, 3, Len(entry) - 1), NotPlus) = param.bounds

EveryTypeParamBounded(header) ==
    LET es == Entries(HeaderImplParams(header))
    IN \A i \in 1..Len(Generics) :
          Generics[i].kind = "Type"
             => i + 1 <= Len(es) /\ CarriesDefaultBound(es[i + 1], Generics[i])

NoParamBounded(header) ==
    LET es == Entries(HeaderImplParams(header))
    IN \A k \in 1..Len(es) : ~Mentions(es[k], ":")

---------------------------------------------------------------------------
(* C7: rejected declarations. *)

Rejected == Shape \in {"Enum", "Union"} \/ HasConst

\* C7 (as claimed): an enum, a union or a declaration with a const parameter
\* aborts with the message of that rejection, whatever annotations are present.
\* Either wording of the enum/union message is accepted here.
C7_RejectionMessage ==
    (Rejected /\ pc = "aborted")
    => \/ HasConst /\ panic.msg = "const generics not supported"
       \/ Shape = "Enum" /\ panic.msg \in {"cannot derive for enums",
                                           "not implemented: Can't derive freeze for enums"}
       \/ Shape = "Union" /\ panic.msg \in {"cannot derive for unions",
                                            "not implemented: Can't derive freeze for unions"}

\* C7 (amended): such a declaration never gets a body or an implementation, and
\* when generation aborts the panic is "const generics not supported" if there
\* is a const parameter; otherwise it is the failure of extract_options on the
\* type's freeze annotations if that fails, and else "not implemented: Can't
\* derive freeze for enums" / "... for unions".
C7_RejectedNeverEmitted ==
    Rejected
    => /\ ~BodyBuilt
       /\ gen = NoGen
       /\ pc = "aborted"
             => IF HasConst
                THEN panic = Panic("format_impl_generics", "const generics not supported")
                ELSE \/ /\ panic.in = "extract_options"
                        /\ \/ ~KeywordsRecognized
                           \/ KwCount("bounds") >= 2
                           \/ (KwCount("bounds") >= 1 /\ KwCount("validator") >= 1)
                     \/ /\ Shape = "Enum"
                        /\ panic = Panic("freeze_enum",
                                         "not implemented: Can't derive freeze for enums")
                     \/ /\ Shape = "Union"
                        /\ panic = Panic("freeze_impl",
                                         "not implemented: Can't derive freeze for unions")
       /\ (pc = "options" \/ pc = "generics") => panic = NoPanic

C7_Witness ==
    /\ pc = "aborted"
    /\ Shape = "Enum"
    /\ panic.in = "freeze_enum"
    /\ KwCount("validator") = 1
    /\ Len(Generics) > 0

---------------------------------------------------------------------------
(* C8: the three parameter lists. *)

GenericsDone == pc # "start" /\ panic.in # "format_impl_generics"

\* C8 (as claimed): each of the three lists has exactly one entry per declared
\* parameter, the i-th entry derived from the i-th parameter.
C8_ThreeListsSameCount ==
    GenericsDone
    => /\ Len(Entries(impl_params)) = Len(Generics)
       /\ Len(Entries(input_params)) = Len(Generics)
       /\ Len(Entries(output_params)) = Len(Generics)
       /\ \A i \in 1..Len(Generics) :
             /\ Entries(impl_params)[i][1] = Generics[i].ident
             /\ Entries(input_params)[i][1] = Generics[i].ident

\* C8 (amended): the input-form and output-form lists have exactly one entry
\* per declared parameter, in declaration order; the implementation list has
\* one entry more, the synthesized lifetime 'freeze, followed by one entry per
\* declared parameter in declaration order.
C8_ListsParallelAfterFreezeLifetime ==
    GenericsDone
    => LET im == Entries(impl_params)
           inp == Entries(input_params)
           out == Entries(output_params)
       IN /\ Len(im) = Len(Generics) + 1
          /\ im[1] = <<"'freeze">>
          /\ Len(inp) = Len(Generics)
          /\ Len(out) = Len(Generics)
          /\ \A i \in 1..Len(Generics) :
                /\ im[i + 1][1] = Generics[i].ident
                /\ inp[i] = <<Generics[i].ident>>
                /\ out[i] = IF Generics[i].kind = "Type"
                            THEN <<Generics[i].ident, "::", "Frozen">>
                            ELSE <<"'static">>

C8_Witness ==
    /\ pc = "generics"
    /\ Len(Generics) = 2
    /\ Generics[1].kind = "Lifetime"
    /\ Generics[2].kind = "Type"

---------------------------------------------------------------------------
(* C5, C6, C9: the fields of a struct. *)

IsStruct == Shape \in {"Named", "Unnamed", "Unit"}
IdentityAttr == [path |-> "freeze", args |-> <<"identity">>]
\* The field carries a well-formed #[freeze(identity)].
Marked(i) == \E k \in 1..Len(Fields[i]) : Fields[i][k] = IdentityAttr
\* The field carries a freeze attribute with content other than `identity`.
Malformed(i) ==
    \E k \in 1..Len(Fields[i]) :
        Fields[i][k].path = "freeze" /\ Fields[i][k].args \notin {<<>>, <<"identity">>}
\* No field carries a freeze attribute at all.
PlainFields ==
    \A i \in 1..Len(Fields) : \A k \in 1..Len(Fields[i]) : Fields[i][k].path # "freeze"

PlainIndex == <<"0", "1", "2", "3">>
FreezeFns == {"starlark::values::Freeze::freeze",
              "starlark::values::FreezeField::freeze_field"}

\* The arguments of the constructor in `Ok(S { .. })` / `Ok(S( .. ))`.
ConstructorArgs(b) == SplitTop(SubSeq(b, 5, Len(b) - 2), 0, <<>>)

\* C5 (as claimed): for a struct of any shape with M fields, none marked
\* identity, generation succeeds and the body returns Ok of a constructor with
\* exactly M field expressions in declaration order; in a positional struct
\* they are M separate arguments and the i-th refers to the plain index i.
C5_OneExpressionPerField ==
    (IsStruct /\ PlainFields /\ OptionsRan /\ panic.in # "extract_options")
    => /\ pc # "aborted"
       /\ BodyBuilt
             => /\ Len(body) >= 3
                /\ body[1] = "std::result::Result::Ok"
                /\ body[3] = StructName
                /\ Shape # "Unit"
                      => /\ Len(ConstructorArgs(body)) = Len(Fields)
                         /\ \A i \in 1..Len(Fields) :
                               LET e == ConstructorArgs(body)[i]
                                   ref == IF Shape = "Named" THEN FieldIdents[i]
                                          ELSE PlainIndex[i]
                               IN \E p \in 1..(Len(e) - 2) :
                                     e[p] = "self" /\ e[p + 1] = "." /\ e[p + 2] = ref

\* Positions of `self .` in a stream, and the field each one names.
SelfAt(b) == {p \in 1..(Len(b) - 2) : b[p] = "self" /\ b[p + 1] = "."}
RECURSIVE Ascending(_)
Ascending(P) ==
    IF P = {} THEN <<>>
    ELSE LET m == CHOOSE x \in P : \A y \in P : x <= y
         IN <<m>> \o Ascending(P \ {m})
FieldRef(i) == IF Shape = "Named" THEN FieldIdents[i] ELSE IndexLit[i]
\* `self.x` at p is the first argument of a freeze call made with the freezer.
FrozenAt(b, p) ==
    /\ p >= 3 /\ p + 6 <= Len(b)
    /\ b[p - 2] \in FreezeFns /\ b[p - 1] = "("
    /\ b[p + 3] = "," /\ b[p + 4] = "freezer" /\ b[p + 5] = ")" /\ b[p + 6] = "?"

\* C6: in the body of a named or positional struct every field is read exactly
\* once, in declaration order; a field marked identity is moved (`self.x`, under
\* its own name in a named struct) with no freeze call, a field not marked is
\* the argument of exactly one freeze call made with the freezer, and the body
\* holds no other freeze call.
C6_IdentityLaw ==
    (BodyBuilt /\ Shape \in {"Named", "Unnamed"})
    => LET ps == Ascending(SelfAt(body))
       IN /\ Len(ps) = Len(Fields)
          /\ \A i \in 1..Len(Fields) :
                /\ body[ps[i] + 2] = FieldRef(i)
                /\ Marked(i) <=> ~FrozenAt(body, ps[i])
                /\ Shape = "Named"
                      => LET n == IF Marked(i) THEN ps[i] - 2 ELSE ps[i] - 4
                         IN body[n] = FieldIdents[i] /\ body[n + 1] = ":"
          /\ Count(body, FreezeFns) = Cardinality({i \in 1..Len(Fields) : ~Marked(i)})
          /\ Count(body, {"?"}) = Count(body, FreezeFns)

C6_Witness ==
    /\ pc = "emitted"
    /\ Len(Fields) = 2
    /\ Marked(1) /\ ~Marked(2)
    /\ Shape = "Unnamed"

\* C9 (as claimed): a field is marked identity iff a bare `identity` is present,
\* and a freeze attribute with any other content on a field aborts generation,
\* wherever it stands relative to a well-formed identity attribute.
C9_MalformedFieldAttrAborts ==
    (BodyBuilt /\ Shape \in {"Named", "Unnamed"})
    => \A i \in 1..Len(Fields) :
          /\ ~Malformed(i)
          /\ is_identity(Fields[i]).flag <=> Marked(i)

---------------------------------------------------------------------------
(* C4: the order of the steps of the generated procedure. *)

Unmarked(i) == ~Marked(i)
\* The fallible steps in claimed order: the validator, if one is configured,
\* then the fields not marked identity in declaration order.
ExpectedCalls ==
    (IF opts.validator # <<>>
     THEN <<[kind |-> "validator", on |-> opts.validator[1][1]]>> ELSE <<>>)
    \o LET idx == SelectSeq([i \in 1..Len(Fields) |-> i], Unmarked)
       IN [k \in 1..Len(idx) |-> [kind |-> "field", on |-> FieldIdents[idx[k]]]]

\* C4: the calls made are a prefix of validator, field 1, field 2, ..; every
\* call but the last returned Ok; the procedure returns the error of the first
\* failing call as it is, and Ok only after every step returned Ok.
C4_FirstFailureStops ==
    pc \in {"running", "returned"}
    => /\ Len(calls) <= Len(ExpectedCalls)
       /\ \A k \in 1..Len(calls) :
             /\ calls[k].kind = ExpectedCalls[k].kind
             /\ calls[k].on = ExpectedCalls[k].on
             /\ k < Len(calls) => calls[k].ret = "Ok"
       /\ (opts.validator # <<>>) <=> (KwCount("validator") >= 1)
       /\ pc = "running" => result = "none" /\ \A k \in 1..Len(calls) : calls[k].ret = "Ok"
       /\ pc = "returned"
             => IF result = "Ok"
                THEN /\ Len(calls) = Len(ExpectedCalls)
                     /\ \A k \in 1..Len(calls) : calls[k].ret = "Ok"
                ELSE /\ calls # <<>>
                     /\ result \in Errors
                     /\ calls[Len(calls)].ret = result

C4_Witness ==
    /\ pc = "returned"
    /\ result \in Errors
    /\ Len(calls) = 1
    /\ calls[1].kind = "validator"
    /\ \E i \in 1..Len(Fields) : ~Marked(i)

---------------------------------------------------------------------------
(* The heap, the freezer and the steps of fn test(). *)

\* heap.alloc(..)
HeapAlloc(h, c) == [addr |-> Cardinality(h) + 1, kind |-> c.kind, elems |-> c.elems]

Frozen(fwd) == {v \in heap : fwd[v] # NoValue}

\* Value::freeze(freezer): the frozen form recorded for the value, or a new one.
ValueFreeze(v, fwd) ==
    IF fwd[v] # NoValue THEN fwd
    ELSE [fwd EXCEPT ![v] = [faddr |-> Cardinality(Frozen(fwd)) + 1,
                             kind |-> v.kind, elems |-> v.elems]]

\* List::from_value(x): Some iff x is a list.
ListFromValue(fv) == IF fv.kind = "list" THEN <<fv.elems>> ELSE <<>>

\* A variant without the List::from_value check.
TestFreeze_unchecked(self, fwd, outcome) ==
    IF outcome # "Ok"
    THEN [ret |-> Err(outcome), fwd |-> fwd]
    ELSE LET fwd2 == ValueFreeze(self.field, fwd)
         IN [ret |-> Ok(fwd2[self.field]), fwd |-> fwd2]

\* impl Freeze for Test<Value>: `outcome` is what self.field.freeze returns,
\* Ok or an error.  [ret: the Result, fwd: the freezer afterwards].
TestFreeze(self, fwd, outcome) ==
    IF outcome # "Ok"
    THEN [ret |-> Err(outcome), fwd |-> fwd]
    ELSE LET fwd2 == ValueFreeze(self.field, fwd)
             test == [field |-> fwd2[self.field]]
         IN IF ListFromValue(test.field) = <<>>
            THEN [ret |-> Err("Not a list!"), fwd |-> fwd2]
            ELSE [ret |-> Ok(test.field), fwd |-> fwd2]

InitTest ==
    /\ input = Decl(<<>>, <<>>, [shape |-> "Named", fields |-> <<<<>>>>])
    /\ pc = "idle"
    /\ impl_params = <<>> /\ input_params = <<>> /\ output_params = <<>>
    /\ opts = DefaultOptions
    /\ body = <<>>
    /\ examined = 0
    /\ gen = NoGen
    /\ panic = NoPanic
    /\ RunInit
    /\ heap = {}
    /\ forward = [v \in AllValues |-> NoValue]
    /\ t = NoTest
    /\ tpc = "start"
    /\ tresult = Err("")

\* let list = heap.alloc(..)
TestAlloc ==
    /\ tpc = "start"
    /\ Cardinality(heap) < MaxHeap
    /\ \E c \in ValueContents : heap' = heap \cup {HeapAlloc(heap, c)}
    /\ UNCHANGED <<forward, t, tpc, tresult>>
    /\ UNCHANGED derive_vars /\ UNCHANGED run_vars

\* let t = Test { field: list }
TestNew ==
    /\ tpc = "start"
    /\ \E v \in heap : t' = [field |-> v]
    /\ tpc' = "built"
    /\ UNCHANGED <<heap, forward, tresult>>
    /\ UNCHANGED derive_vars /\ UNCHANGED run_vars

\* list.freeze(&freezer)?
TestFreezeValue ==
    /\ tpc = "built"
    /\ \E v \in heap \ Frozen(forward) : \E outcome \in {"Ok"} \cup FreezeErrors :
          IF outcome = "Ok"
          THEN forward' = ValueFreeze(v, forward) /\ UNCHANGED <<tpc, tresult>>
          ELSE tpc' = "failed" /\ tresult' = Err(outcome) /\ UNCHANGED forward
    /\ UNCHANGED <<heap, t>>
    /\ UNCHANGED derive_vars /\ UNCHANGED run_vars

\* t.freeze(&freezer)?
TestFreezeStruct ==
    /\ tpc = "built"
    /\ \E outcome \in {"Ok"} \cup FreezeErrors :
          LET r == TestFreeze(t, forward, outcome)
          IN /\ tresult' = r.ret
             /\ forward' = r.fwd
    /\ tpc' = "done"
    /\ UNCHANGED <<heap, t>>
    /\ UNCHANGED derive_vars /\ UNCHANGED run_vars

NextTest == TestAlloc \/ TestNew \/ TestFreezeValue \/ TestFreezeStruct

SpecTest == InitTest /\ [][NextTest]_vars

\* C10: t.freeze returns Ok exactly with `field` the frozen form the freezer
\* holds for the value (a list with the value's elements, the one made earlier
\* if the value was frozen before), after the list check on that frozen field
\* has succeeded; otherwise it returns the field freeze's error or, for a frozen
\* field that is no list, "Not a list!".
C10_FrozenFieldIsList ==
    tpc = "done"
    => IF tresult.ret = "Ok"
       THEN /\ t.field.kind = "list"
            /\ tresult.field # NoValue
            /\ tresult.field = forward[t.field]
            /\ tresult.field.kind = "list"
            /\ tresult.field.elems = t.field.elems
            /\ ListFromValue(tresult.field) # <<>>
       ELSE \/ tresult.msg \in FreezeErrors
            \/ /\ tresult.msg = "Not a list!"
               /\ t.field.kind # "list"
               /\ forward[t.field] # NoValue

\* The field was frozen through the freezer before the struct, and another
\* value after it.
C10_Witness ==
    /\ tpc = "done"
    /\ tresult.ret = "Ok"
    /\ t.field.elems = <<1, 2>>
    /\ tresult.field.faddr < Cardinality(Frozen(forward))

===========================================================================
